---- MODULE Spec2Model ----
(***************************************************************************)
(* Maze generation (incremental DFS), path replay, right-hand wall         *)
(* following and the phase coordinator of the Python maze solving game.    *)
(* Objects are records named after the attributes that hold them in        *)
(* GameStateManager; positions are pairs <<row, col>>; Python's None is    *)
(* the empty tuple.                                                        *)
(***************************************************************************)
EXTENDS Integers, Sequences, FiniteSets, TLC

\* Largest grid explored: MazeStructure(rows, cols) with 1..MaxRows x 1..MaxCols.
MaxRows == 5
MaxCols == 7

\* Longest waypoint list handed to _create_complete_path on its own.
MaxWaypoints == 3

\* Largest grid with arbitrary cells handed to MazeStructure and to
\* RightHandSolver on their own.
MaxGridRows == 2
MaxGridCols == 3

None == <<>>

VARIABLES
    pc,                       \* "constructed" | "running" | "error" | "hung"
                              \* | "returned" (a function called on its own)
    maze_structure,           \* MazeStructure: rows, cols, grid, start, end
    maze_generator,           \* MazeGenerator fields
    path_solver,              \* PathSolver fields
    right_hand_solver,        \* RightHandSolver fields
    current_phase,            \* GameStateManager.current_phase
    show_ending_screen,       \* GameStateManager.show_ending_screen
    current_robot_pos,        \* GameStateManager.current_robot_pos
    current_robot_direction,  \* GameStateManager.current_robot_direction
    generation_calls,         \* step_generation calls made up to the first False
    dfs_path,                 \* _create_complete_path: its argument
    complete_path,            \* _create_complete_path: the list it returns
    prev_pos,                 \* update_animation_step: the value it returned last
    observed                  \* a component called on its own: what its caller saw

vars == <<pc, maze_structure, maze_generator, path_solver, right_hand_solver,
          current_phase, show_ending_screen, current_robot_pos,
          current_robot_direction, generation_calls, dfs_path, complete_path,
          prev_pos, observed>>

-----------------------------------------------------------------------------
(* MazeStructure *)

Cells(rows, cols) == (0 .. rows - 1) \X (0 .. cols - 1)

MazeStructure(rows, cols) ==
    [rows |-> rows, cols |-> cols,
     grid |-> [r \in 0 .. rows - 1 |-> [c \in 0 .. cols - 1 |-> 0]],
     start |-> <<0, 0>>, end |-> <<0, 0>>]

is_valid_position(ms, row, col) ==
    0 <= row /\ row < ms.rows /\ 0 <= col /\ col < ms.cols

is_wall(ms, row, col) ==
    IF ~is_valid_position(ms, row, col) THEN TRUE
    ELSE ms.grid[row][col] = 0

is_path(ms, row, col) ==
    IF ~is_valid_position(ms, row, col) THEN FALSE
    ELSE ms.grid[row][col] = 1

\* set_cell testing the upper bounds only: a negative index then counts
\* from the end of the list, as Python's indexing does.
set_cell_negative_index(ms, row, col, value) ==
    IF -ms.rows <= row /\ row < ms.rows /\ -ms.cols <= col /\ col < ms.cols
    THEN [ms EXCEPT !.grid[row % ms.rows][col % ms.cols] = value]
    ELSE ms

set_cell(ms, row, col, value) ==
    IF is_valid_position(ms, row, col)
    THEN [ms EXCEPT !.grid[row][col] = value]
    ELSE ms

carve_path(ms, row, col) == set_cell(ms, row, col, 1)

-----------------------------------------------------------------------------
(* MazeGenerator *)

MazeGenerator(ms) ==
    [visited |-> [r \in 0 .. ms.rows - 1 |-> [c \in 0 .. ms.cols - 1 |-> FALSE]],
     generation_complete |-> FALSE,
     current_pos |-> None,
     stack |-> <<>>,
     solution_path |-> <<>>,
     found_exit_during_generation |-> FALSE]

\* rand_edge_row without the preference for odd interior rows: any row.
rand_edge_row_any_row(ms) == 0 .. ms.rows - 1

\* The values rand_edge_row() can return.
rand_edge_row(ms) ==
    IF ms.rows <= 2 THEN 0 .. ms.rows - 1
    ELSE {r \in 1 .. ms.rows - 2 : r % 2 = 1}

\* start = (sr, 0), end = (er, cols - 1), both carved.
initialize_entry_exit(ms, sr, er) ==
    LET start == <<sr, 0>>
        end == <<er, ms.cols - 1>>
        m1 == [ms EXCEPT !.start = start, !.end = end]
        m2 == carve_path(m1, start[1], start[2])
    IN  carve_path(m2, end[1], end[2])

\* start_generation without the move to column 1: the DFS is seeded on the
\* entrance itself.
start_generation_seeds_entrance(ms, g, sr, er) ==
    LET m1 == initialize_entry_exit(ms, sr, er)
        sx == m1.start[1]
        sy == m1.start[2]
        m3 == carve_path(m1, sx, sy)
    IN  [ms |-> m3,
         g |-> [g EXCEPT !.visited[sx][sy] = TRUE,
                         !.current_pos = <<sx, sy>>,
                         !.stack = <<<<sx, sy>>>>],
         raised |-> FALSE]

\* start_generation pushing the entrance under the seed: stack = [start, seed].
start_generation_pushes_entrance(ms, g, sr, er) ==
    LET m1 == initialize_entry_exit(ms, sr, er)
        sx == m1.start[1]
        m2 == IF m1.start[2] = 0 THEN carve_path(m1, sx, 1) ELSE m1
        sy == IF m1.start[2] = 0 THEN 1 ELSE m1.start[2]
        m3 == carve_path(m2, sx, sy)
    IN  IF sy >= ms.cols
        THEN [ms |-> m3, g |-> g, raised |-> TRUE]
        ELSE [ms |-> m3,
              g |-> [g EXCEPT !.visited[sx][sy] = TRUE,
                              !.current_pos = <<sx, sy>>,
                              !.stack = <<m1.start, <<sx, sy>>>>],
              raised |-> FALSE]

\* visited[sx][sy] raises IndexError when sy is not a column of the grid
\* (sx is always a row: it comes from rand_edge_row).
start_generation(ms, g, sr, er) ==
    LET m1 == initialize_entry_exit(ms, sr, er)
        sx == m1.start[1]
        m2 == IF m1.start[2] = 0 THEN carve_path(m1, sx, 1) ELSE m1
        sy == IF m1.start[2] = 0 THEN 1 ELSE m1.start[2]
        m3 == carve_path(m2, sx, sy)
    IN  IF sy >= ms.cols
        THEN [ms |-> m3, g |-> g, raised |-> TRUE]
        ELSE [ms |-> m3,
              g |-> [g EXCEPT !.visited[sx][sy] = TRUE,
                              !.current_pos = <<sx, sy>>,
                              !.stack = <<<<sx, sy>>>>],
              raised |-> FALSE]

RECURSIVE FillGaps(_, _, _)
\* The loop of _create_complete_path from index i on, acc the list so far.
FillGaps(path, i, acc) ==
    IF i > Len(path) THEN acc
    ELSE LET prev_cell == path[i - 1]
             curr_cell == path[i]
             intermediate == <<(prev_cell[1] + curr_cell[1]) \div 2,
                               (prev_cell[2] + curr_cell[2]) \div 2>>
             a1 == IF intermediate # prev_cell THEN Append(acc, intermediate)
                   ELSE acc
         IN  FillGaps(path, i + 1, Append(a1, curr_cell))

\* _create_complete_path starting from an empty list: the first waypoint is
\* left out.
_create_complete_path_drops_first(path) ==
    IF Len(path) < 2 THEN path
    ELSE FillGaps(path, 2, <<>>)

_create_complete_path(path) ==
    IF Len(path) < 2 THEN path
    ELSE FillGaps(path, 2, <<path[1]>>)

\* directions of _step_dfs before the shuffle.
dfs_directions == <<<<0, 2>>, <<2, 0>>, <<0, -2>>, <<-2, 0>>>>

\* Every order random.shuffle can leave the four directions in.
Shuffles ==
    {o \in [1 .. 4 -> 1 .. 4] : \A i, j \in 1 .. 4 : i # j => o[i] # o[j]}

\* dfs_target_ok with the range test off by one (<= in place of <), which
\* lets the DFS step onto the last row and the last column.
dfs_target_ok_onto_border(ms, g, x, y, d) ==
    LET nx == x + d[1]
        ny == y + d[2]
    IN  /\ 0 < nx /\ nx <= ms.rows - 1 /\ 0 < ny /\ ny <= ms.cols - 1
        /\ ~g.visited[nx][ny]

\* The DFS target test of the for loop for direction d from head (x, y).
dfs_target_ok(ms, g, x, y, d) ==
    LET nx == x + d[1]
        ny == y + d[2]
    IN  /\ 0 < nx /\ nx < ms.rows - 1 /\ 0 < ny /\ ny < ms.cols - 1
        /\ ~g.visited[nx][ny]

\* _step_dfs filling the dead end it backtracks from: the popped cell is set
\* back to Wall.
_step_dfs_walls_dead_ends(ms, g, o) ==
    IF g.stack = <<>>
    THEN [ms |-> ms, g |-> [g EXCEPT !.generation_complete = TRUE], ret |-> FALSE]
    ELSE
      LET top == g.stack[Len(g.stack)]
          x == top[1]
          y == top[2]
          peek == ~g.found_exit_during_generation /\ <<x, y + 1>> = ms.end
          g1 == IF peek
                THEN [g EXCEPT !.found_exit_during_generation = TRUE,
                               !.solution_path =
                                   Append(_create_complete_path(g.stack), ms.end)]
                ELSE g
          ok == {i \in 1 .. 4 : dfs_target_ok(ms, g1, x, y, dfs_directions[o[i]])}
      IN  IF ok # {}
          THEN LET i == CHOOSE k \in ok : \A j \in ok : k <= j
                   d == dfs_directions[o[i]]
                   nx == x + d[1]
                   ny == y + d[2]
                   m1 == carve_path(ms, x + (d[1] \div 2), y + (d[2] \div 2))
                   m2 == carve_path(m1, nx, ny)
               IN  [ms |-> m2,
                    g |-> [g1 EXCEPT !.visited[nx][ny] = TRUE,
                                     !.stack = Append(g1.stack, <<nx, ny>>),
                                     !.current_pos = <<nx, ny>>],
                    ret |-> TRUE]
          ELSE LET popped == SubSeq(g1.stack, 1, Len(g1.stack) - 1)
               IN  [ms |-> set_cell(ms, x, y, 0),
                    g |-> [g1 EXCEPT !.stack = popped,
                                     !.current_pos =
                                         IF popped # <<>> THEN popped[Len(popped)]
                                         ELSE g1.current_pos],
                    ret |-> TRUE]

\* _step_dfs capturing the stack as it is, without the cells between the
\* waypoints: solution_path = stack + [end].
_step_dfs_raw_capture(ms, g, o) ==
    IF g.stack = <<>>
    THEN [ms |-> ms, g |-> [g EXCEPT !.generation_complete = TRUE], ret |-> FALSE]
    ELSE
      LET top == g.stack[Len(g.stack)]
          x == top[1]
          y == top[2]
          peek == ~g.found_exit_during_generation /\ <<x, y + 1>> = ms.end
          g1 == IF peek
                THEN [g EXCEPT !.found_exit_during_generation = TRUE,
                               !.solution_path = Append(g.stack, ms.end)]
                ELSE g
          ok == {i \in 1 .. 4 : dfs_target_ok(ms, g1, x, y, dfs_directions[o[i]])}
      IN  IF ok # {}
          THEN LET i == CHOOSE k \in ok : \A j \in ok : k <= j
                   d == dfs_directions[o[i]]
                   nx == x + d[1]
                   ny == y + d[2]
                   m1 == carve_path(ms, x + (d[1] \div 2), y + (d[2] \div 2))
                   m2 == carve_path(m1, nx, ny)
               IN  [ms |-> m2,
                    g |-> [g1 EXCEPT !.visited[nx][ny] = TRUE,
                                     !.stack = Append(g1.stack, <<nx, ny>>),
                                     !.current_pos = <<nx, ny>>],
                    ret |-> TRUE]
          ELSE LET popped == SubSeq(g1.stack, 1, Len(g1.stack) - 1)
               IN  [ms |-> ms,
                    g |-> [g1 EXCEPT !.stack = popped,
                                     !.current_pos =
                                         IF popped # <<>> THEN popped[Len(popped)]
                                         ELSE g1.current_pos],
                    ret |-> TRUE]

\* One call of _step_dfs with the shuffle leaving the directions in order o.
_step_dfs(ms, g, o) ==
    IF g.stack = <<>>
    THEN [ms |-> ms, g |-> [g EXCEPT !.generation_complete = TRUE], ret |-> FALSE]
    ELSE
      LET top == g.stack[Len(g.stack)]
          x == top[1]
          y == top[2]
          peek == ~g.found_exit_during_generation /\ <<x, y + 1>> = ms.end
          g1 == IF peek
                THEN [g EXCEPT !.found_exit_during_generation = TRUE,
                               !.solution_path =
                                   Append(_create_complete_path(g.stack), ms.end)]
                ELSE g
          ok == {i \in 1 .. 4 : dfs_target_ok(ms, g1, x, y, dfs_directions[o[i]])}
      IN  IF ok # {}
          THEN LET i == CHOOSE k \in ok : \A j \in ok : k <= j
                   d == dfs_directions[o[i]]
                   nx == x + d[1]
                   ny == y + d[2]
                   m1 == carve_path(ms, x + (d[1] \div 2), y + (d[2] \div 2))
                   m2 == carve_path(m1, nx, ny)
               IN  [ms |-> m2,
                    g |-> [g1 EXCEPT !.visited[nx][ny] = TRUE,
                                     !.stack = Append(g1.stack, <<nx, ny>>),
                                     !.current_pos = <<nx, ny>>],
                    ret |-> TRUE]
          ELSE LET popped == SubSeq(g1.stack, 1, Len(g1.stack) - 1)
               IN  [ms |-> ms,
                    g |-> [g1 EXCEPT !.stack = popped,
                                     !.current_pos =
                                         IF popped # <<>> THEN popped[Len(popped)]
                                         ELSE g1.current_pos],
                    ret |-> TRUE]

\* step_generation noticing the end of the DFS in the call whose pop empties
\* the stack: that call sets generation_complete and returns False.
step_generation_completes_on_pop(ms, g, o) ==
    IF g.generation_complete THEN [ms |-> ms, g |-> g, ret |-> FALSE]
    ELSE LET r == _step_dfs(ms, g, o)
         IN  IF r.g.stack = <<>>
             THEN [ms |-> r.ms,
                   g |-> [r.g EXCEPT !.generation_complete = TRUE],
                   ret |-> FALSE]
             ELSE r

step_generation(ms, g, o) ==
    IF g.generation_complete THEN [ms |-> ms, g |-> g, ret |-> FALSE]
    ELSE _step_dfs(ms, g, o)

\* The outcomes one step_generation call can have, over all shuffles.
StepGenerationOutcomes(ms, g) == {step_generation(ms, g, o) : o \in Shuffles}

get_solution_path(g) ==
    IF g.found_exit_during_generation THEN g.solution_path ELSE <<>>

RECURSIVE GenerationLoop(_, _, _)
\* while not generation_complete: step_generation(); n counts the calls.
GenerationLoop(ms, g, n) ==
    IF g.generation_complete
    THEN {[ms |-> ms, g |-> g, n |-> n, raised |-> FALSE]}
    ELSE UNION {GenerationLoop(r.ms, r.g, n + 1) : r \in StepGenerationOutcomes(ms, g)}

\* create_maze_instantly without the "if not self.current_pos" guard: it
\* calls start_generation again on a generator that is already running.
create_maze_instantly_restarts(ms, g, n) ==
    UNION {LET r == start_generation(ms, g, sr, er)
           IN  IF r.raised
               THEN {[ms |-> r.ms, g |-> r.g, n |-> n, raised |-> TRUE]}
               ELSE GenerationLoop(r.ms, r.g, n) :
             sr \in rand_edge_row(ms), er \in rand_edge_row(ms)}

\* The states create_maze_instantly can end in: start_generation first when
\* current_pos is unset, then the loop.
create_maze_instantly(ms, g, n) ==
    IF g.current_pos = None
    THEN UNION {LET r == start_generation(ms, g, sr, er)
                IN  IF r.raised
                    THEN {[ms |-> r.ms, g |-> r.g, n |-> n, raised |-> TRUE]}
                    ELSE GenerationLoop(r.ms, r.g, n) :
                  sr \in rand_edge_row(ms), er \in rand_edge_row(ms)}
    ELSE GenerationLoop(ms, g, n)

-----------------------------------------------------------------------------
(* PathSolver *)

PathSolver ==
    [solution_path |-> <<>>, current_step |-> 0,
     solving_complete |-> FALSE, current_pos |-> None]

set_solution_path(ps, path) ==
    [ps EXCEPT !.solution_path = path, !.current_step = 0,
               !.solving_complete = FALSE]

\* start_solving leaving the cursor where the last run stopped.
PathSolver_start_solving_keeps_cursor(ms, ps) ==
    [ps EXCEPT !.solving_complete = FALSE, !.current_pos = ms.start]

PathSolver_start_solving(ms, ps) ==
    [ps EXCEPT !.current_step = 0, !.solving_complete = FALSE,
               !.current_pos = ms.start]

\* step_solve returning False at the end of the path without setting
\* solving_complete.
PathSolver_step_solve_leaves_flag(ps) ==
    IF ps.solution_path = <<>>
    THEN [s |-> [ps EXCEPT !.solving_complete = TRUE], ret |-> FALSE]
    ELSE IF ps.current_step >= Len(ps.solution_path)
    THEN [s |-> ps, ret |-> FALSE]
    ELSE [s |-> [ps EXCEPT !.current_pos = ps.solution_path[ps.current_step + 1],
                           !.current_step = ps.current_step + 1],
          ret |-> TRUE]

PathSolver_step_solve(ps) ==
    IF ps.solution_path = <<>>
    THEN [s |-> [ps EXCEPT !.solving_complete = TRUE], ret |-> FALSE]
    ELSE IF ps.current_step >= Len(ps.solution_path)
    THEN [s |-> [ps EXCEPT !.solving_complete = TRUE], ret |-> FALSE]
    ELSE [s |-> [ps EXCEPT !.current_pos = ps.solution_path[ps.current_step + 1],
                           !.current_step = ps.current_step + 1],
          ret |-> TRUE]

PathSolver_get_current_path(ps) ==
    IF ps.current_step > 0 THEN SubSeq(ps.solution_path, 1, ps.current_step)
    ELSE <<>>

clear_path(ps) == [ps EXCEPT !.current_step = 0]

RECURSIVE PathSolveLoop(_)
\* while not path_solver.is_complete(): path_solver.step_solve()
PathSolveLoop(ps) ==
    IF ps.solving_complete THEN ps
    ELSE PathSolveLoop(PathSolver_step_solve(ps).s)

-----------------------------------------------------------------------------
(* RightHandSolver *)

RightHandSolver ==
    [current_pos |-> None, current_direction |-> 0, path_taken |-> <<>>,
     solving_complete |-> FALSE, visited_positions |-> {}]

\* Direction vectors: North, East, South, West.
directions == <<<<-1, 0>>, <<0, 1>>, <<1, 0>>, <<0, -1>>>>

direction_names == <<"up", "right", "down", "left">>

RightHandSolver_start_solving(ms, rh) ==
    [rh EXCEPT !.current_pos = ms.start, !.current_direction = 1,
               !.path_taken = <<ms.start>>, !.solving_complete = FALSE,
               !.visited_positions = {ms.start}]

_get_position_in_direction(ms, pos, direction) ==
    IF pos = None THEN None
    ELSE LET new_row == pos[1] + directions[direction + 1][1]
             new_col == pos[2] + directions[direction + 1][2]
         IN  IF is_valid_position(ms, new_row, new_col)
             THEN <<new_row, new_col>> ELSE None

\* _can_move_to without the look at the grid: any cell inside it will do.
_can_move_to_any_cell(ms, pos) == pos # None

_can_move_to(ms, pos) ==
    IF pos = None THEN FALSE ELSE is_path(ms, pos[1], pos[2])

Abs(n) == IF n < 0 THEN -n ELSE n

\* _is_exit_adjacent looking only at the cell the solver faces.
_is_exit_adjacent_facing_only(ms, rh) ==
    IF rh.current_pos = None THEN FALSE
    ELSE IF _get_position_in_direction(ms, rh.current_pos, rh.current_direction)
              = ms.end
    THEN _can_move_to(ms, ms.end)
    ELSE FALSE

_is_exit_adjacent(ms, rh) ==
    IF rh.current_pos = None THEN FALSE
    ELSE IF Abs(rh.current_pos[1] - ms.end[1])
            + Abs(rh.current_pos[2] - ms.end[2]) = 1
    THEN _can_move_to(ms, ms.end)
    ELSE FALSE

\* The turn offsets _get_next_move tries, in order: right, straight, left, back.
turn_order == <<1, 0, -1, 2>>

\* _get_next_move trying straight ahead before the right turn.
_get_next_move_straight_first(ms, rh) ==
    LET order == <<0, 1, -1, 2>>
        dir(k) == (rh.current_direction + order[k]) % 4
        target(k) == _get_position_in_direction(ms, rh.current_pos, dir(k))
        open == {k \in 1 .. 4 : target(k) # None /\ _can_move_to(ms, target(k))}
    IN  IF open = {} THEN [pos |-> None, direction |-> rh.current_direction]
        ELSE LET k == CHOOSE a \in open : \A b \in open : a <= b
             IN  [pos |-> target(k), direction |-> dir(k)]

\* _get_next_move answering "stay where you are" when no move is open.
_get_next_move_stays_put(ms, rh) ==
    LET dir(k) == (rh.current_direction + turn_order[k]) % 4
        target(k) == _get_position_in_direction(ms, rh.current_pos, dir(k))
        open == {k \in 1 .. 4 : target(k) # None /\ _can_move_to(ms, target(k))}
    IN  IF open = {}
        THEN [pos |-> rh.current_pos, direction |-> rh.current_direction]
        ELSE LET k == CHOOSE a \in open : \A b \in open : a <= b
             IN  [pos |-> target(k), direction |-> dir(k)]

_get_next_move(ms, rh) ==
    LET dir(k) == (rh.current_direction + turn_order[k]) % 4
        target(k) == _get_position_in_direction(ms, rh.current_pos, dir(k))
        open == {k \in 1 .. 4 : target(k) # None /\ _can_move_to(ms, target(k))}
    IN  IF open = {} THEN [pos |-> None, direction |-> rh.current_direction]
        ELSE LET k == CHOOSE a \in open : \A b \in open : a <= b
             IN  [pos |-> target(k), direction |-> dir(k)]

\* step_solve moving without storing the direction it moved in: the solver
\* keeps facing the way start_solving left it.
RightHandSolver_step_solve_keeps_direction(ms, rh) ==
    IF rh.solving_complete THEN [s |-> rh, ret |-> FALSE]
    ELSE IF rh.current_pos = ms.end
    THEN [s |-> [rh EXCEPT !.solving_complete = TRUE], ret |-> FALSE]
    ELSE IF _is_exit_adjacent(ms, rh)
    THEN [s |-> [rh EXCEPT !.current_pos = ms.end,
                           !.path_taken = Append(rh.path_taken, ms.end),
                           !.solving_complete = TRUE],
          ret |-> FALSE]
    ELSE LET mv == _get_next_move(ms, rh)
         IN  IF mv.pos # None
             THEN [s |-> [rh EXCEPT !.current_pos = mv.pos,
                                    !.path_taken = Append(rh.path_taken, mv.pos),
                                    !.visited_positions =
                                        rh.visited_positions \cup {mv.pos}],
                   ret |-> TRUE]
             ELSE [s |-> [rh EXCEPT !.solving_complete = TRUE], ret |-> FALSE]

RightHandSolver_step_solve(ms, rh) ==
    IF rh.solving_complete THEN [s |-> rh, ret |-> FALSE]
    ELSE IF rh.current_pos = ms.end
    THEN [s |-> [rh EXCEPT !.solving_complete = TRUE], ret |-> FALSE]
    ELSE IF _is_exit_adjacent(ms, rh)
    THEN [s |-> [rh EXCEPT !.current_pos = ms.end,
                           !.path_taken = Append(rh.path_taken, ms.end),
                           !.solving_complete = TRUE],
          ret |-> FALSE]
    ELSE LET mv == _get_next_move(ms, rh)
         IN  IF mv.pos # None
             THEN [s |-> [rh EXCEPT !.current_pos = mv.pos,
                                    !.current_direction = mv.direction,
                                    !.path_taken = Append(rh.path_taken, mv.pos),
                                    !.visited_positions =
                                        rh.visited_positions \cup {mv.pos}],
                   ret |-> TRUE]
             ELSE [s |-> [rh EXCEPT !.solving_complete = TRUE], ret |-> FALSE]

get_current_direction_name(rh) == direction_names[rh.current_direction + 1]

\* On a fixed grid the solver's next move is decided by (current_pos,
\* current_direction) and current_pos is always a Path cell, so a run that
\* has not completed after this many steps has repeated a configuration and
\* never completes.
RhStepLimit(ms) ==
    4 * Cardinality({p \in Cells(ms.rows, ms.cols) : ms.grid[p[1]][p[2]] = 1}) + 1

RECURSIVE RightHandLoop(_, _, _)
\* while not right_hand_solver.is_complete(): right_hand_solver.step_solve()
\* returns: the final solver state, or "diverges" when the loop never exits.
RightHandLoop(ms, rh, fuel) ==
    IF rh.solving_complete THEN [s |-> rh, returns |-> TRUE]
    ELSE IF fuel = 0 THEN [s |-> rh, returns |-> FALSE]
    ELSE RightHandLoop(ms, RightHandSolver_step_solve(ms, rh).s, fuel - 1)

-----------------------------------------------------------------------------
(* GameStateManager: operations on the whole program state w, a record    *)
(* with one field per variable.                                            *)

\* start_path_solving_phase without its last line: current_robot_pos stays
\* where the generator left it.
start_path_solving_phase_keeps_robot(w) ==
    [w EXCEPT !.current_phase = "path_solving",
              !.path_solver = PathSolver_start_solving(w.maze_structure,
                                                       w.path_solver)]

start_path_solving_phase(w) ==
    LET ps == PathSolver_start_solving(w.maze_structure, w.path_solver)
    IN  [w EXCEPT !.current_phase = "path_solving",
                  !.path_solver = ps,
                  !.current_robot_pos = ps.current_pos]

\* end_generation_phase starting the replay without handing the captured
\* path over.
end_generation_phase_without_path(w) == start_path_solving_phase(w)

end_generation_phase(w) ==
    start_path_solving_phase(
        [w EXCEPT !.path_solver =
            set_solution_path(w.path_solver, get_solution_path(w.maze_generator))])

\* start_right_hand_phase without the clear_path call.
start_right_hand_phase_keeps_trail(w) ==
    LET rh == RightHandSolver_start_solving(w.maze_structure, w.right_hand_solver)
    IN  [w EXCEPT !.current_phase = "right_hand",
                  !.right_hand_solver = rh,
                  !.current_robot_pos = rh.current_pos]

\* start_right_hand_phase placing the markers anew (the entrance on the
\* exit's row and the exit on the entrance's row) before the solver starts.
start_right_hand_phase_replaces_markers(w) ==
    LET ms == initialize_entry_exit(w.maze_structure, w.maze_structure.end[1],
                                    w.maze_structure.start[1])
        rh == RightHandSolver_start_solving(ms, w.right_hand_solver)
    IN  [w EXCEPT !.current_phase = "right_hand",
                  !.maze_structure = ms,
                  !.path_solver = clear_path(w.path_solver),
                  !.right_hand_solver = rh,
                  !.current_robot_pos = rh.current_pos]

start_right_hand_phase(w) ==
    LET rh == RightHandSolver_start_solving(w.maze_structure, w.right_hand_solver)
    IN  [w EXCEPT !.current_phase = "right_hand",
                  !.path_solver = clear_path(w.path_solver),
                  !.right_hand_solver = rh,
                  !.current_robot_pos = rh.current_pos]

\* end_path_solving_phase going straight to the end of the run, leaving out
\* the right-hand phase.
end_path_solving_phase_to_complete(w) ==
    [w EXCEPT !.current_phase = "complete", !.show_ending_screen = TRUE]

end_path_solving_phase(w) == start_right_hand_phase(w)

end_right_hand_phase(w) ==
    [w EXCEPT !.current_phase = "complete", !.show_ending_screen = TRUE]

\* The states a skip_current_phase call can end in; pc = "hung" when the
\* while loop of the right_hand branch never exits.
skip_current_phase(w) ==
    IF w.current_phase = "generation"
    THEN {LET w1 == [w EXCEPT !.maze_structure = r.ms,
                              !.maze_generator = r.g,
                              !.generation_calls = r.n]
          IN  IF r.raised THEN [w1 EXCEPT !.pc = "error"]
              ELSE end_generation_phase(w1) :
            r \in create_maze_instantly(w.maze_structure, w.maze_generator,
                                        w.generation_calls)}
    ELSE IF w.current_phase = "path_solving"
    THEN {end_path_solving_phase(
            [w EXCEPT !.path_solver = PathSolveLoop(w.path_solver)])}
    ELSE IF w.current_phase = "right_hand"
    THEN LET r == RightHandLoop(w.maze_structure, w.right_hand_solver,
                                RhStepLimit(w.maze_structure))
         IN  IF r.returns
             THEN {end_right_hand_phase([w EXCEPT !.right_hand_solver = r.s])}
             ELSE {[w EXCEPT !.pc = "hung"]}
    ELSE {w}

\* update_animation_step reading prev_pos after the step: it returns the
\* position the step has just stored.
update_animation_step_returns_new_pos(w) ==
    IF w.current_phase = "generation"
    THEN {LET w1 == [w EXCEPT !.prev_pos = r.g.current_pos,
                              !.maze_structure = r.ms,
                              !.maze_generator = r.g,
                              !.generation_calls = w.generation_calls + 1,
                              !.current_robot_pos = r.g.current_pos]
          IN  IF ~r.ret THEN end_generation_phase(w1) ELSE w1 :
            r \in StepGenerationOutcomes(w.maze_structure, w.maze_generator)}
    ELSE IF w.current_phase = "path_solving"
    THEN LET r == PathSolver_step_solve(w.path_solver)
             w1 == [w EXCEPT !.prev_pos = r.s.current_pos,
                             !.path_solver = r.s,
                             !.current_robot_pos = r.s.current_pos]
         IN  {IF ~r.ret THEN end_path_solving_phase(w1) ELSE w1}
    ELSE IF w.current_phase = "right_hand"
    THEN LET r == RightHandSolver_step_solve(w.maze_structure, w.right_hand_solver)
             w1 == [w EXCEPT !.prev_pos = r.s.current_pos,
                             !.right_hand_solver = r.s,
                             !.current_robot_pos = r.s.current_pos,
                             !.current_robot_direction =
                                 get_current_direction_name(r.s)]
         IN  {IF ~r.ret THEN end_right_hand_phase(w1) ELSE w1}
    ELSE {[w EXCEPT !.prev_pos = w.current_robot_pos]}

\* The states an update_animation_step call can end in; prev_pos is the
\* value it returns.
update_animation_step(w) ==
    IF w.current_phase = "generation"
    THEN {LET w1 == [w EXCEPT !.prev_pos = w.current_robot_pos,
                              !.maze_structure = r.ms,
                              !.maze_generator = r.g,
                              !.generation_calls = w.generation_calls + 1,
                              !.current_robot_pos = r.g.current_pos]
          IN  IF ~r.ret THEN end_generation_phase(w1) ELSE w1 :
            r \in StepGenerationOutcomes(w.maze_structure, w.maze_generator)}
    ELSE IF w.current_phase = "path_solving"
    THEN LET r == PathSolver_step_solve(w.path_solver)
             w1 == [w EXCEPT !.prev_pos = w.current_robot_pos,
                             !.path_solver = r.s,
                             !.current_robot_pos = r.s.current_pos]
         IN  {IF ~r.ret THEN end_path_solving_phase(w1) ELSE w1}
    ELSE IF w.current_phase = "right_hand"
    THEN LET r == RightHandSolver_step_solve(w.maze_structure, w.right_hand_solver)
             w1 == [w EXCEPT !.prev_pos = w.current_robot_pos,
                             !.right_hand_solver = r.s,
                             !.current_robot_pos = r.s.current_pos,
                             !.current_robot_direction =
                                 get_current_direction_name(r.s)]
         IN  {IF ~r.ret THEN end_right_hand_phase(w1) ELSE w1}
    ELSE {[w EXCEPT !.prev_pos = w.current_robot_pos]}

\* get_current_paths: (path_solver_path, right_hand_path).
get_current_paths(w) ==
    <<IF w.current_phase = "right_hand" THEN <<>>
      ELSE IF w.current_phase # "generation"
           THEN PathSolver_get_current_path(w.path_solver) ELSE <<>>,
      IF w.current_phase = "right_hand" \/ w.current_phase = "complete"
      THEN w.right_hand_solver.path_taken ELSE <<>>>>

-----------------------------------------------------------------------------
Init ==
    /\ pc = "constructed"
    /\ \E rows \in 1 .. MaxRows, cols \in 1 .. MaxCols :
          /\ maze_structure = MazeStructure(rows, cols)
          /\ maze_generator = MazeGenerator(MazeStructure(rows, cols))
    /\ path_solver = PathSolver
    /\ right_hand_solver = RightHandSolver
    /\ current_phase = "generation"
    /\ show_ending_screen = FALSE
    /\ current_robot_pos = None
    /\ current_robot_direction = "down"
    /\ generation_calls = 0
    /\ dfs_path = <<>>
    /\ complete_path = <<>>
    /\ prev_pos = None
    /\ observed = None

StartGenerationPhase ==
    /\ pc = "constructed"
    /\ \E sr \in rand_edge_row(maze_structure), er \in rand_edge_row(maze_structure) :
         LET r == start_generation(maze_structure, maze_generator, sr, er)
         IN  /\ maze_structure' = r.ms
             /\ maze_generator' = r.g
             /\ pc' = IF r.raised THEN "error" ELSE "running"
             /\ current_phase' = "generation"
             /\ current_robot_pos' = IF r.raised THEN current_robot_pos
                                     ELSE r.g.current_pos
    /\ UNCHANGED <<path_solver, right_hand_solver, show_ending_screen,
                   current_robot_direction, generation_calls, dfs_path,
                   complete_path, prev_pos, observed>>

\* The program state as one record, and its assignment to the variables.
World ==
    [pc |-> pc, maze_structure |-> maze_structure,
     maze_generator |-> maze_generator, path_solver |-> path_solver,
     right_hand_solver |-> right_hand_solver, current_phase |-> current_phase,
     show_ending_screen |-> show_ending_screen,
     current_robot_pos |-> current_robot_pos,
     current_robot_direction |-> current_robot_direction,
     generation_calls |-> generation_calls, prev_pos |-> prev_pos]

SetWorld(w) ==
    /\ pc' = w.pc
    /\ maze_structure' = w.maze_structure
    /\ maze_generator' = w.maze_generator
    /\ path_solver' = w.path_solver
    /\ right_hand_solver' = w.right_hand_solver
    /\ current_phase' = w.current_phase
    /\ show_ending_screen' = w.show_ending_screen
    /\ current_robot_pos' = w.current_robot_pos
    /\ current_robot_direction' = w.current_robot_direction
    /\ generation_calls' = w.generation_calls
    /\ prev_pos' = w.prev_pos

\* One frame's update_animation_step. The wall-follower's trace is only
\* followed up to RhStepLimit moves: beyond it the run is known to cycle.
UpdateAnimationStep ==
    /\ pc = "running"
    /\ current_phase = "right_hand" =>
         Len(right_hand_solver.path_taken) <= RhStepLimit(maze_structure)
    /\ \E w \in update_animation_step(World) : SetWorld(w)
    /\ UNCHANGED <<dfs_path, complete_path, observed>>

\* SPACE pressed: skip_current_phase.
SkipCurrentPhase ==
    /\ pc = "running"
    /\ \E w \in skip_current_phase(World) : SetWorld(w)
    /\ UNCHANGED <<dfs_path, complete_path, observed>>

Next ==
    \/ StartGenerationPhase
    \/ UpdateAnimationStep
    \/ SkipCurrentPhase

Spec == Init /\ [][Next]_vars

-----------------------------------------------------------------------------
(* _create_complete_path called on its own, on any short list of cells in  *)
(* which each cell is its predecessor moved by 0, 1 or 2 along one axis.   *)

\* The cells one move of at most 2 along one axis away from p (p included).
WaypointMoves(p) ==
    {q \in Cells(MaxRows, MaxCols) :
        \/ q[1] = p[1] /\ Abs(q[2] - p[2]) <= 2
        \/ q[2] = p[2] /\ Abs(q[1] - p[1]) <= 2}

RECURSIVE WaypointLists(_)
\* The lists of exactly n such cells.
WaypointLists(n) ==
    IF n = 0 THEN {<<>>}
    ELSE IF n = 1 THEN {<<p>> : p \in Cells(MaxRows, MaxCols)}
    ELSE UNION {{Append(l, q) : q \in WaypointMoves(l[n - 1])} :
                  l \in WaypointLists(n - 1)}

InitCreateCompletePath ==
    /\ pc = "constructed"
    /\ \E n \in 0 .. MaxWaypoints : dfs_path \in WaypointLists(n)
    /\ complete_path = <<>>
    /\ maze_structure = MazeStructure(MaxRows, MaxCols)
    /\ maze_generator = MazeGenerator(MazeStructure(MaxRows, MaxCols))
    /\ path_solver = PathSolver
    /\ right_hand_solver = RightHandSolver
    /\ current_phase = "generation"
    /\ show_ending_screen = FALSE
    /\ current_robot_pos = None
    /\ current_robot_direction = "down"
    /\ generation_calls = 0
    /\ prev_pos = None
    /\ observed = None

CreateCompletePath ==
    /\ pc = "constructed"
    /\ pc' = "returned"
    /\ complete_path' = _create_complete_path(dfs_path)
    /\ UNCHANGED <<maze_structure, maze_generator, path_solver,
                   right_hand_solver, current_phase, show_ending_screen,
                   current_robot_pos, current_robot_direction,
                   generation_calls, dfs_path, prev_pos, observed>>

SpecCreateCompletePath == InitCreateCompletePath /\ [][CreateCompletePath]_vars

-----------------------------------------------------------------------------
(* PathSolver on its own: a path is stored, replayed to its end, and       *)
(* replayed once more, with or without storing it again. observed holds    *)
(* the path p, the number of the run, the (current_pos, return value) of   *)
(* each step_solve call of the run, and the same of the first run.         *)

\* The variables no component called on its own touches.
coordinator_vars ==
    <<maze_generator, current_phase, show_ending_screen, current_robot_pos,
      current_robot_direction, generation_calls, dfs_path, complete_path,
      prev_pos>>

\* The coordinator as constructed, nothing started.
CoordinatorIdle ==
    /\ current_phase = "generation"
    /\ show_ending_screen = FALSE
    /\ current_robot_pos = None
    /\ current_robot_direction = "down"
    /\ generation_calls = 0
    /\ dfs_path = <<>>
    /\ complete_path = <<>>
    /\ prev_pos = None

\* The paths handed to the solver: lists of cells from the cell right of
\* start on, as a captured path begins.
ReplayPaths(ms) ==
    {<<>>} \cup
    {l \in UNION {WaypointLists(n) : n \in 1 .. MaxWaypoints} :
        l[1] = <<ms.start[1], 1>>}

InitPathSolver ==
    /\ pc = "constructed"
    /\ \E sr \in rand_edge_row(MazeStructure(MaxRows, MaxCols)),
          er \in rand_edge_row(MazeStructure(MaxRows, MaxCols)) :
          /\ maze_structure =
                initialize_entry_exit(MazeStructure(MaxRows, MaxCols), sr, er)
          /\ \E l \in ReplayPaths(initialize_entry_exit(
                                      MazeStructure(MaxRows, MaxCols), sr, er)) :
                observed = [p |-> l, run |-> 0, trace |-> <<>>, first |-> <<>>]
    /\ maze_generator = MazeGenerator(MazeStructure(MaxRows, MaxCols))
    /\ path_solver = PathSolver
    /\ right_hand_solver = RightHandSolver
    /\ CoordinatorIdle

\* set_solution_path(p), before a run.
SetSolutionPath ==
    /\ pc \in {"constructed", "returned"}
    /\ observed.run < 2
    /\ path_solver' = set_solution_path(path_solver, observed.p)
    /\ UNCHANGED <<pc, maze_structure, right_hand_solver, observed>>
    /\ UNCHANGED coordinator_vars

\* start_solving(): a run begins.
StartSolving ==
    /\ pc \in {"constructed", "returned"}
    /\ observed.run < 2
    /\ path_solver.solution_path = observed.p
    /\ pc' = "running"
    /\ path_solver' = PathSolver_start_solving(maze_structure, path_solver)
    /\ observed' = [observed EXCEPT !.run = observed.run + 1,
                                    !.trace = <<>>,
                                    !.first = observed.trace]
    /\ UNCHANGED <<maze_structure, right_hand_solver>>
    /\ UNCHANGED coordinator_vars

\* step_solve(), until it returns False.
StepSolve ==
    /\ pc = "running"
    /\ LET r == PathSolver_step_solve(path_solver)
       IN  /\ path_solver' = r.s
           /\ observed' = [observed EXCEPT
                             !.trace = Append(observed.trace,
                                              [pos |-> r.s.current_pos,
                                               ret |-> r.ret])]
           /\ pc' = IF r.ret THEN "running" ELSE "returned"
    /\ UNCHANGED <<maze_structure, right_hand_solver>>
    /\ UNCHANGED coordinator_vars

\* clear_path(), after a run.
ClearPath ==
    /\ pc = "returned"
    /\ path_solver' = clear_path(path_solver)
    /\ UNCHANGED <<pc, maze_structure, right_hand_solver, observed>>
    /\ UNCHANGED coordinator_vars

NextPathSolver ==
    \/ SetSolutionPath
    \/ StartSolving
    \/ StepSolve
    \/ ClearPath

SpecPathSolver == InitPathSolver /\ [][NextPathSolver]_vars

-----------------------------------------------------------------------------
(* MazeStructure on its own: any small grid, cells Wall or Path at will,   *)
(* and one carve_path call at any position in or around it. observed      *)
(* holds the arguments and the grid of before the call.                    *)

\* The grids of rows x cols cells, each cell Wall or Path.
Grids(rows, cols) ==
    {[MazeStructure(rows, cols) EXCEPT !.grid = g] :
        g \in [0 .. rows - 1 -> [0 .. cols - 1 -> {0, 1}]]}

InitMazeStructure ==
    /\ pc = "constructed"
    /\ \E rows \in 1 .. MaxGridRows, cols \in 1 .. MaxGridCols :
          /\ maze_structure \in Grids(rows, cols)
          /\ \E row \in -(rows + 1) .. rows + 1, col \in -(cols + 1) .. cols + 1 :
                observed = [row |-> row, col |-> col, before |-> None]
    /\ maze_generator = MazeGenerator(MazeStructure(1, 1))
    /\ path_solver = PathSolver
    /\ right_hand_solver = RightHandSolver
    /\ CoordinatorIdle

\* carve_path(row, col)
CarvePath ==
    /\ pc = "constructed"
    /\ pc' = "returned"
    /\ maze_structure' = carve_path(maze_structure, observed.row, observed.col)
    /\ observed' = [observed EXCEPT !.before = maze_structure]
    /\ UNCHANGED <<path_solver, right_hand_solver>>
    /\ UNCHANGED coordinator_vars

SpecMazeStructure == InitMazeStructure /\ [][CarvePath]_vars

-----------------------------------------------------------------------------
(* RightHandSolver on its own: one step_solve call of a solver standing on *)
(* any Path cell of any small grid, facing any direction, with the end     *)
(* marker on any cell. observed holds the solver of before the call and    *)
(* the value the call returned.                                            *)

InitRightHandStep ==
    /\ pc = "constructed"
    /\ \E rows \in 1 .. MaxGridRows, cols \in 1 .. MaxGridCols :
        \E m \in Grids(rows, cols) :
        \E pos \in {c \in Cells(rows, cols) : m.grid[c[1]][c[2]] = 1},
           end \in Cells(rows, cols), d \in 0 .. 3 :
          /\ maze_structure = [m EXCEPT !.start = pos, !.end = end]
          /\ right_hand_solver =
                [RightHandSolver_start_solving([m EXCEPT !.start = pos],
                                               RightHandSolver)
                   EXCEPT !.current_direction = d]
    /\ observed = None
    /\ maze_generator = MazeGenerator(MazeStructure(1, 1))
    /\ path_solver = PathSolver
    /\ CoordinatorIdle

\* step_solve()
RightHandStepSolve ==
    /\ pc = "constructed"
    /\ pc' = "returned"
    /\ LET r == RightHandSolver_step_solve(maze_structure, right_hand_solver)
       IN  /\ right_hand_solver' = r.s
           /\ observed' = [before |-> right_hand_solver, ret |-> r.ret]
    /\ UNCHANGED <<maze_structure, path_solver>>
    /\ UNCHANGED coordinator_vars

SpecRightHandStep == InitRightHandStep /\ [][RightHandStepSolve]_vars

-----------------------------------------------------------------------------
(* RightHandSolver on its own, a whole run: start_solving and then         *)
(* step_solve again and again, on any small grid whose start marker is on  *)
(* a Path cell of the left column and whose end marker is on any cell of   *)
(* the right column, as initialize_entry_exit places them. observed holds  *)
(* the solver of before the last call and the value that call returned.    *)

InitRightHandRun ==
    /\ pc = "constructed"
    /\ \E rows \in 1 .. MaxGridRows, cols \in 1 .. MaxGridCols :
        \E m \in Grids(rows, cols) :
        \E sr \in {r \in 0 .. rows - 1 : m.grid[r][0] = 1}, er \in 0 .. rows - 1 :
          maze_structure = [m EXCEPT !.start = <<sr, 0>>, !.end = <<er, cols - 1>>]
    /\ right_hand_solver = RightHandSolver
    /\ observed = None
    /\ maze_generator = MazeGenerator(MazeStructure(1, 1))
    /\ path_solver = PathSolver
    /\ CoordinatorIdle

\* start_solving()
RightHandStartSolving ==
    /\ pc = "constructed"
    /\ pc' = "running"
    /\ right_hand_solver' =
          RightHandSolver_start_solving(maze_structure, right_hand_solver)
    /\ UNCHANGED <<maze_structure, path_solver, observed>>
    /\ UNCHANGED coordinator_vars

\* step_solve(), also after the solver has completed. The trace is only
\* followed up to RhStepLimit moves: beyond it the run is known to cycle.
RightHandRunStepSolve ==
    /\ pc = "running"
    /\ Len(right_hand_solver.path_taken) <= RhStepLimit(maze_structure)
    /\ LET r == RightHandSolver_step_solve(maze_structure, right_hand_solver)
       IN  /\ right_hand_solver' = r.s
           /\ observed' = [before |-> right_hand_solver, ret |-> r.ret]
    /\ UNCHANGED <<pc, maze_structure, path_solver>>
    /\ UNCHANGED coordinator_vars

NextRightHandRun ==
    \/ RightHandStartSolving
    \/ RightHandRunStepSolve

SpecRightHandRun == InitRightHandRun /\ [][NextRightHandRun]_vars

-----------------------------------------------------------------------------
(* Vocabulary of the properties *)

PathCells(ms) == {p \in Cells(ms.rows, ms.cols) : ms.grid[p[1]][p[2]] = 1}

Adjacent(p, q) == Abs(p[1] - q[1]) + Abs(p[2] - q[2]) = 1

RECURSIVE Flood(_, _)
\* The Path cells joined to a cell of seen by a chain of 4-adjacent Path cells.
Flood(ms, seen) ==
    LET more == seen \cup {q \in PathCells(ms) : \E p \in seen : Adjacent(p, q)}
    IN  IF more = seen THEN seen ELSE Flood(ms, more)

Perimeter(ms) ==
    {p \in Cells(ms.rows, ms.cols) :
        p[1] = 0 \/ p[1] = ms.rows - 1 \/ p[2] = 0 \/ p[2] = ms.cols - 1}

\* Path-cell graph: connected and with one edge fewer than vertices (a tree).
PathEdges(ms) ==
    {e \in PathCells(ms) \X PathCells(ms) :
        Adjacent(e[1], e[2]) /\ (e[1][1] < e[2][1] \/ e[1][2] < e[2][2])}

IsPerfect(ms) ==
    LET V == PathCells(ms)
    IN  /\ V # {}
        /\ Flood(ms, {CHOOSE v \in V : TRUE}) = V
        /\ Cardinality(PathEdges(ms)) = Cardinality(V) - 1

\* step_generation has returned False.
GenerationDone == pc = "running" /\ maze_generator.generation_complete

-----------------------------------------------------------------------------
\* C1: once generation has completed, the end marker is joined to the start
\* marker by a chain of 4-adjacent Path cells, for every grid size.
C1_Connectivity ==
    GenerationDone =>
        maze_structure.end \in Flood(maze_structure, {maze_structure.start})

\* C2 as stated: once generation has completed, every perimeter cell other
\* than start and end is Wall, for every grid size.
C2_BorderEverySize ==
    GenerationDone =>
        \A p \in Perimeter(maze_structure) :
            p \notin {maze_structure.start, maze_structure.end}
                => maze_structure.grid[p[1]][p[2]] = 0

\* C2 amended: the same for grids of at least 3 rows and 3 columns.
C2_Border ==
    (GenerationDone /\ maze_structure.rows >= 3 /\ maze_structure.cols >= 3) =>
        \A p \in Perimeter(maze_structure) :
            p \notin {maze_structure.start, maze_structure.end}
                => maze_structure.grid[p[1]][p[2]] = 0

C2_Witness ==
    /\ GenerationDone
    /\ maze_structure.rows = MaxRows /\ maze_structure.cols = MaxCols
    /\ Cardinality(PathCells(maze_structure)) > 4

\* C3: the step_generation calls up to and including the first that returns
\* False number at most rows * cols.
C3_GenerationBound ==
    generation_calls <= maze_structure.rows * maze_structure.cols

C3_Witness ==
    /\ GenerationDone
    /\ generation_calls = maze_structure.rows * maze_structure.cols

\* C4: once generation has completed, the Path cells form a connected graph
\* without cycle under 4-adjacency.
C4_PerfectMaze == GenerationDone => IsPerfect(maze_structure)

\* C5: on every grid a completed generation produces, stepping the
\* wall-follower from start_solving reaches solving_complete with
\* current_pos = end after finitely many steps: the loop over step_solve
\* exits, the run never takes more steps than there are (Path cell, facing)
\* configurations, and a completed solver stands on end.
C5_WallFollowerReachesEnd ==
    /\ pc # "hung"
    /\ current_phase \in {"right_hand", "complete"} =>
        /\ Len(right_hand_solver.path_taken) - 1
              <= 4 * Cardinality(PathCells(maze_structure))
        /\ right_hand_solver.solving_complete =>
              right_hand_solver.current_pos = maze_structure.end

\* C6: for every grid size the run raises no error and loops nowhere
\* endlessly on its way to phase complete.
C6_RunReachesComplete ==
    /\ pc \notin {"error", "hung"}
    /\ current_phase = "right_hand" =>
          Len(right_hand_solver.path_taken) - 1
              <= 4 * Cardinality(PathCells(maze_structure))

\* C7: current_phase only changes generation -> path_solving -> right_hand
\* -> complete, one phase per call, and only when the component of the
\* phase left has reported completion (its step returned False).
C7_PhaseChange ==
    \/ current_phase' = current_phase
    \/ /\ current_phase = "generation" /\ current_phase' = "path_solving"
       /\ maze_generator'.generation_complete
    \/ /\ current_phase = "path_solving" /\ current_phase' = "right_hand"
       /\ path_solver'.solving_complete
    \/ /\ current_phase = "right_hand" /\ current_phase' = "complete"
       /\ right_hand_solver'.solving_complete

\* C7: every step of the run is a C7_PhaseChange: the phase order holds under
\* any interleaving of update_animation_step and skip_current_phase calls.
C7_PhaseOrder == [][C7_PhaseChange]_vars

C7_Witness ==
    /\ current_phase = "complete"
    /\ maze_structure.rows = MaxRows /\ maze_structure.cols = MaxCols

\* What C8 compares: phase, robot position and direction, and the paths.
C8_Observed(w) ==
    [pc |-> w.pc, current_phase |-> w.current_phase,
     current_robot_pos |-> w.current_robot_pos,
     current_robot_direction |-> w.current_robot_direction,
     paths |-> get_current_paths(w)]

RECURSIVE C8_Animate(_, _, _)
\* update_animation_step repeated until current_phase has left phase.
C8_Animate(w, phase, fuel) ==
    IF w.current_phase # phase THEN {w}
    ELSE IF fuel = 0 THEN {[w EXCEPT !.pc = "hung"]}
    ELSE UNION {C8_Animate(w2, phase, fuel - 1) : w2 \in update_animation_step(w)}

\* C8: from any state of a non-terminal phase, skip_current_phase ends in the
\* coordinator state that repeated update_animation_step calls end in.
C8_SkipEquivalence ==
    (pc = "running" /\ current_phase # "complete") =>
        {C8_Observed(w) : w \in skip_current_phase(World)}
          = {C8_Observed(w) :
               w \in C8_Animate(World, current_phase,
                                4 * maze_structure.rows * maze_structure.cols + 2)}

\* C9: in phase complete current_robot_pos is the end marker.
C9_RobotAtExit ==
    current_phase = "complete" => current_robot_pos = maze_structure.end

RECURSIVE C10_StepGenerationUntilFalse(_, _)
\* step_generation called until it returns False.
C10_StepGenerationUntilFalse(ms, g) ==
    UNION {IF r.ret THEN C10_StepGenerationUntilFalse(r.ms, r.g)
           ELSE {[ms |-> r.ms, g |-> r.g]} :
             r \in StepGenerationOutcomes(ms, g)}

RECURSIVE C10_PathStepUntilFalse(_)
\* PathSolver.step_solve called until it returns False.
C10_PathStepUntilFalse(ps) ==
    LET r == PathSolver_step_solve(ps)
    IN  IF r.ret THEN C10_PathStepUntilFalse(r.s) ELSE r.s

RECURSIVE C10_RightHandStepUntilFalse(_, _, _)
\* RightHandSolver.step_solve called until it returns False; returns is FALSE
\* when no call ever does.
C10_RightHandStepUntilFalse(ms, rh, fuel) ==
    LET r == RightHandSolver_step_solve(ms, rh)
    IN  IF ~r.ret THEN [s |-> r.s, returns |-> TRUE]
        ELSE IF fuel = 0 THEN [s |-> rh, returns |-> FALSE]
        ELSE C10_RightHandStepUntilFalse(ms, r.s, fuel - 1)

\* C10: in every state of a phase, running the phase's component to
\* completion in a loop (create_maze_instantly; while not is_complete():
\* step_solve()) gives the grid, markers, captured path, trace and position
\* that calling its step until it returns False gives.
C10_ComponentSkipEquivalence ==
    pc = "running" =>
        /\ current_phase = "generation" =>
              {[ms |-> r.ms, g |-> r.g] :
                  r \in create_maze_instantly(maze_structure, maze_generator, 0)}
                = C10_StepGenerationUntilFalse(maze_structure, maze_generator)
        /\ current_phase = "path_solving" =>
              PathSolveLoop(path_solver) = C10_PathStepUntilFalse(path_solver)
        /\ current_phase = "right_hand" =>
              LET a == RightHandLoop(maze_structure, right_hand_solver,
                                     RhStepLimit(maze_structure))
                  b == C10_RightHandStepUntilFalse(maze_structure, right_hand_solver,
                                                   RhStepLimit(maze_structure))
              IN  /\ a.returns = b.returns
                  /\ a.returns => a.s = b.s

C10_Witness ==
    /\ pc = "running" /\ current_phase = "generation"
    /\ Len(maze_generator.stack) >= 2
    /\ Cardinality(create_maze_instantly(maze_structure, maze_generator, 0)) >= 2

\* C11: in phase complete get_current_paths returns both recorded traces: the
\* whole captured path the path solver replayed and the wall-follower's
\* path_taken.
C11_CompleteExposesBothTraces ==
    current_phase = "complete" =>
        get_current_paths(World)
          = <<path_solver.solution_path, right_hand_solver.path_taken>>

\* C12: a cell that is Path before a step is Path after it, whatever the step.
C12_CarvingMonotonic ==
    [][\A p \in PathCells(maze_structure) :
          maze_structure'.grid[p[1]][p[2]] = 1]_vars

C12_Witness ==
    /\ current_phase = "generation"
    /\ maze_generator.generation_complete = FALSE
    /\ maze_generator.stack = <<>>
    /\ Cardinality(PathCells(maze_structure)) >= 9

\* C13: once current_phase has left generation, no step changes a grid cell or
\* the start and end markers.
C13_GridReadOnly ==
    [][current_phase # "generation" => maze_structure' = maze_structure]_vars

C13_Witness ==
    /\ current_phase = "complete"
    /\ maze_structure.start[1] # maze_structure.end[1]
    /\ Len(right_hand_solver.path_taken) >= 6

\* The state start_generation has just returned in: no step_generation call
\* has been made yet.
JustStarted ==
    pc = "running" /\ current_phase = "generation" /\ generation_calls = 0

\* No direction passes the DFS target test from the head of the stack.
NoLatticeMove ==
    maze_generator.stack # <<>> =>
        LET top == maze_generator.stack[Len(maze_generator.stack)]
        IN  \A i \in 1 .. 4 :
                ~dfs_target_ok(maze_structure, maze_generator, top[1], top[2],
                               dfs_directions[i])

\* C14: on a 1x1 grid start_generation and the step calls raise no error,
\* start = end = (0,0), and generation is complete once the first
\* step_generation call has been made.
C14_OneByOne ==
    (maze_structure.rows = 1 /\ maze_structure.cols = 1) =>
        /\ pc # "error"
        /\ pc = "running" =>
              /\ maze_structure.start = <<0, 0>>
              /\ maze_structure.end = <<0, 0>>
              /\ generation_calls >= 1 => maze_generator.generation_complete

\* C15 as stated: on a 2x2 grid the DFS seed is (0,0), no lattice move is
\* possible, and generation is complete once one step_generation call has
\* been made.
C15_TwoByTwoSeedOrigin ==
    (maze_structure.rows = 2 /\ maze_structure.cols = 2 /\ pc = "running") =>
        /\ JustStarted => /\ maze_generator.stack = <<<<0, 0>>>>
                          /\ maze_generator.current_pos = <<0, 0>>
        /\ NoLatticeMove
        /\ generation_calls >= 1 => maze_generator.generation_complete

\* C15 amended: on a 2x2 grid the DFS seed is the cell right of start,
\* (start row, 1), no lattice move is possible, and generation completes on
\* the second step_generation call (the first pops the seed).
C15_TwoByTwo ==
    (maze_structure.rows = 2 /\ maze_structure.cols = 2 /\ pc = "running") =>
        /\ JustStarted => /\ maze_generator.stack = <<<<maze_structure.start[1], 1>>>>
                          /\ maze_generator.current_pos = <<maze_structure.start[1], 1>>
        /\ NoLatticeMove
        /\ maze_generator.generation_complete <=> generation_calls = 2
        /\ generation_calls <= 2

C15_Witness ==
    /\ maze_structure.rows = 2 /\ maze_structure.cols = 2
    /\ pc = "running" /\ current_phase = "generation"
    /\ generation_calls = 1
    /\ maze_generator.stack = <<>>
    /\ maze_structure.start[1] # maze_structure.end[1]

\* C17: once start_generation has returned, start is in column 0 and end in
\* column cols - 1, both are Path, the cell right of start is Path, and with
\* 3 rows or more neither marker is on the first or the last row.
C17_EntranceExitPlacement ==
    pc = "running" =>
        LET start == maze_structure.start
            end == maze_structure.end
        IN  /\ start[2] = 0
            /\ end[2] = maze_structure.cols - 1
            /\ is_path(maze_structure, start[1], start[2])
            /\ is_path(maze_structure, end[1], end[2])
            /\ is_path(maze_structure, start[1], start[2] + 1)
            /\ maze_structure.rows >= 3 =>
                  /\ start[1] \notin {0, maze_structure.rows - 1}
                  /\ end[1] \notin {0, maze_structure.rows - 1}

C17_Witness ==
    /\ JustStarted
    /\ maze_structure.rows = MaxRows
    /\ maze_structure.cols >= 2
    /\ maze_structure.start[1] # maze_structure.end[1]

\* C18: when start_generation has returned on a grid of at least 3x3, the
\* seed (current_pos) is an interior cell on an odd row and an odd column, is
\* Path, is marked visited and is the only entry of the stack.
C18_DfsSeed ==
    (JustStarted /\ maze_structure.rows >= 3 /\ maze_structure.cols >= 3) =>
        /\ maze_generator.current_pos # None
        /\ LET sx == maze_generator.current_pos[1]
               sy == maze_generator.current_pos[2]
           IN  /\ 0 < sx /\ sx < maze_structure.rows - 1
               /\ 0 < sy /\ sy < maze_structure.cols - 1
               /\ sx % 2 = 1 /\ sy % 2 = 1
               /\ is_path(maze_structure, sx, sy)
               /\ maze_generator.visited[sx][sy]
               /\ maze_generator.stack = <<<<sx, sy>>>>

C18_Witness ==
    /\ JustStarted
    /\ maze_structure.rows = MaxRows /\ maze_structure.cols = MaxCols
    /\ maze_generator.current_pos = <<3, 1>>

\* C16: on every 5x5 grid of a completed generation the wall-follower,
\* started at start, completes on end within 24 step_solve calls, and the
\* run's own solver never records more than 24 moves.
C16_FiveByFive ==
    (maze_structure.rows = 5 /\ maze_structure.cols = 5 /\ GenerationDone) =>
        /\ LET r == RightHandLoop(maze_structure,
                        RightHandSolver_start_solving(maze_structure, RightHandSolver),
                        24)
           IN  r.returns /\ r.s.current_pos = maze_structure.end
        /\ current_phase \in {"right_hand", "complete"} =>
              Len(right_hand_solver.path_taken) - 1 <= 24

C16_Witness ==
    /\ maze_structure.rows = 5 /\ maze_structure.cols = 5
    /\ current_phase = "complete"
    /\ right_hand_solver.current_pos = maze_structure.end
    /\ Len(right_hand_solver.path_taken) - 1 >= 8

\* The head of the stack has end as its right neighbour.
C19_HeadLeftOfEnd(ms, g) ==
    /\ g.stack # <<>>
    /\ <<g.stack[Len(g.stack)][1], g.stack[Len(g.stack)][2] + 1>> = ms.end

\* The capture rule of C19. In every state of the generation, whatever the
\* next step_generation call does: a path already captured stays as it is; a step taken with no
\* path captured and the head left of end captures the gap-filled stack
\* followed by end; any other step captures nothing. As long as nothing is
\* captured get_solution_path returns the empty list.
C19_CaptureStep ==
    /\ ~maze_generator.found_exit_during_generation =>
          get_solution_path(maze_generator) = <<>>
    /\ (pc = "running" /\ current_phase = "generation") =>
          \A r \in StepGenerationOutcomes(maze_structure, maze_generator) :
              IF maze_generator.found_exit_during_generation
              THEN /\ r.g.found_exit_during_generation
                   /\ r.g.solution_path = maze_generator.solution_path
              ELSE IF C19_HeadLeftOfEnd(maze_structure, maze_generator)
              THEN /\ r.g.found_exit_during_generation
                   /\ get_solution_path(r.g) =
                        Append(_create_complete_path(maze_generator.stack),
                               maze_structure.end)
              ELSE /\ ~r.g.found_exit_during_generation
                   /\ get_solution_path(r.g) = <<>>

\* C19: the capture rule above holds in every state, and no step of any
\* phase changes a path once it is captured.
C19_ExitCaptureOnce ==
    /\ []C19_CaptureStep
    /\ [][maze_generator.found_exit_during_generation =>
            /\ maze_generator'.found_exit_during_generation
            /\ maze_generator'.solution_path = maze_generator.solution_path]_vars

C19_Witness ==
    /\ pc = "running" /\ current_phase = "generation"
    /\ maze_generator.found_exit_during_generation
    /\ Len(maze_generator.solution_path) >= 8
    /\ Len(maze_generator.stack) < 3

\* Consecutive entries differ by exactly 2 along one axis.
C20_Waypoints(path) ==
    \A i \in 1 .. Len(path) - 1 :
        \/ path[i][1] = path[i + 1][1] /\ Abs(path[i][2] - path[i + 1][2]) = 2
        \/ path[i][2] = path[i + 1][2] /\ Abs(path[i][1] - path[i + 1][1]) = 2

\* C20: for n waypoints, each 2 away from the one before along one axis,
\* _create_complete_path returns 2n-1 cells: the waypoints in order at the
\* odd places, between two of them the cell adjacent to both, every cell
\* 4-adjacent to the next; a list of fewer than 2 waypoints comes back as it is.
C20_PathGapFilling ==
    pc = "returned" =>
        LET n == Len(dfs_path)
        IN  /\ n < 2 => complete_path = dfs_path
            /\ (n >= 2 /\ C20_Waypoints(dfs_path)) =>
                  /\ Len(complete_path) = 2 * n - 1
                  /\ \A i \in 1 .. n : complete_path[2 * i - 1] = dfs_path[i]
                  /\ \A i \in 1 .. n - 1 :
                        /\ Adjacent(complete_path[2 * i], dfs_path[i])
                        /\ Adjacent(complete_path[2 * i], dfs_path[i + 1])
                  /\ \A j \in 1 .. 2 * n - 2 :
                        Adjacent(complete_path[j], complete_path[j + 1])

C20_Witness ==
    /\ pc = "returned"
    /\ Len(dfs_path) = MaxWaypoints
    /\ C20_Waypoints(dfs_path)
    /\ dfs_path[1][1] # dfs_path[3][1]
    /\ dfs_path[1][2] # dfs_path[3][2]
    /\ Len(complete_path) = 2 * MaxWaypoints - 1

\* C23: when generation captured no path, the first step_solve of the path
\* solver reports completion with current_pos still start, and the run goes
\* on through right_hand to complete: the wall-follower's loop exits.
C23_EmptyPathProceeds ==
    (pc \in {"running", "hung"} /\ maze_generator.generation_complete
       /\ get_solution_path(maze_generator) = <<>>) =>
        /\ current_phase # "generation"
        /\ path_solver.current_pos = maze_structure.start
        /\ current_phase = "path_solving" =>
              LET r == PathSolver_step_solve(path_solver)
              IN  /\ ~r.ret
                  /\ r.s.solving_complete
                  /\ r.s.current_pos = maze_structure.start
        /\ pc # "hung"
        /\ current_phase = "right_hand" =>
              Len(right_hand_solver.path_taken) - 1
                  <= 4 * Cardinality(PathCells(maze_structure))

\* C28: a step that takes current_phase from generation to path_solving
\* leaves the path solver holding get_solution_path() of the generator, with
\* cursor 0 and not complete, and current_robot_pos on the start marker.
C28_GenerationHandOff ==
    [][(current_phase = "generation" /\ current_phase' = "path_solving") =>
          /\ path_solver'.solution_path = get_solution_path(maze_generator')
          /\ path_solver'.current_step = 0
          /\ ~path_solver'.solving_complete
          /\ current_robot_pos' = maze_structure'.start]_vars

C28_Witness ==
    /\ current_phase = "path_solving"
    /\ path_solver.current_step = 0
    /\ Len(path_solver.solution_path) >= 8
    /\ current_robot_pos = maze_structure.start

\* C29: a step that takes current_phase from path_solving to right_hand
\* leaves the path solver's trail empty, the wall-follower on start facing
\* East with path_taken = [start] and visited_positions = {start}, and
\* current_robot_pos on start.
C29_ReplayHandOff ==
    [][(current_phase = "path_solving" /\ current_phase' = "right_hand") =>
          /\ PathSolver_get_current_path(path_solver') = <<>>
          /\ right_hand_solver'.current_pos = maze_structure'.start
          /\ direction_names[right_hand_solver'.current_direction + 1] = "right"
          /\ right_hand_solver'.path_taken = <<maze_structure'.start>>
          /\ right_hand_solver'.visited_positions = {maze_structure'.start}
          /\ current_robot_pos' = maze_structure'.start]_vars

C29_Witness ==
    /\ current_phase = "right_hand"
    /\ right_hand_solver.path_taken = <<maze_structure.start>>
    /\ Len(path_solver.solution_path) >= 8
    /\ path_solver.solving_complete

C21_ReplayDeterminism ==
    (pc = "returned" /\ observed.run = 2) => observed.trace = observed.first

C21_Witness ==
    /\ pc = "returned" /\ observed.run = 2
    /\ Len(observed.p) = MaxWaypoints
    /\ Len(observed.trace) = MaxWaypoints + 1
    /\ path_solver.current_pos # maze_structure.start

\* A step_solve call has just been made: the trace of the run has grown.
C22_Stepped == Len(observed'.trace) = Len(observed.trace) + 1

\* The cursor is within the path and get_current_path is the prefix it marks.
C22_CursorInPath ==
    /\ 0 <= path_solver.current_step
    /\ path_solver.current_step <= Len(path_solver.solution_path)
    /\ PathSolver_get_current_path(path_solver)
         = [i \in 1 .. path_solver.current_step |-> path_solver.solution_path[i]]

\* C22: a step_solve call on an empty path, or with the cursor at the end of
\* the path, marks the solver complete and returns False; any other call
\* moves current_pos to the cell under the cursor, advances the cursor by
\* one and returns True. The cursor never leaves the path and
\* get_current_path is the prefix of the path of the cursor's length.
C22_ReplayStep ==
    /\ []C22_CursorInPath
    /\ [][C22_Stepped =>
            LET path == path_solver.solution_path
                ret == observed'.trace[Len(observed'.trace)].ret
            IN  IF path = <<>> \/ path_solver.current_step = Len(path)
                THEN /\ path_solver'.solving_complete
                     /\ ret = FALSE
                ELSE /\ path_solver'.current_pos = path[path_solver.current_step + 1]
                     /\ path_solver'.current_step = path_solver.current_step + 1
                     /\ ret = TRUE]_vars

C22_Witness ==
    /\ pc = "returned"
    /\ Len(observed.p) = MaxWaypoints
    /\ path_solver.current_step = MaxWaypoints
    /\ path_solver.solving_complete
    /\ PathSolver_get_current_path(path_solver) = observed.p

\* The cell one step from pos in direction d (0 North, 1 East, 2 South,
\* 3 West), and whether the solver can stand on it.
C24_Target(pos, d) ==
    IF d = 0 THEN <<pos[1] - 1, pos[2]>>
    ELSE IF d = 1 THEN <<pos[1], pos[2] + 1>>
    ELSE IF d = 2 THEN <<pos[1] + 1, pos[2]>>
    ELSE <<pos[1], pos[2] - 1>>

C24_Open(pos, d) ==
    LET t == C24_Target(pos, d)
    IN  /\ t \in Cells(maze_structure.rows, maze_structure.cols)
        /\ maze_structure.grid[t[1]][t[2]] = 1

\* Right, straight, left, back of facing f, in this order.
C24_Candidates(f) == <<(f + 1) % 4, f, (f + 3) % 4, (f + 2) % 4>>

\* C24: a step_solve call made away from end, with end not adjacent and a
\* move open, takes the first open one of right, straight, left, back and
\* turns the solver that way.
C24_RightHandPriority ==
    pc = "returned" =>
        LET b == observed.before
            cand == C24_Candidates(b.current_direction)
            open == {k \in 1 .. 4 : C24_Open(b.current_pos, cand[k])}
        IN  (/\ b.current_pos # maze_structure.end
             /\ ~Adjacent(b.current_pos, maze_structure.end)
             /\ open # {}) =>
                \E k \in open :
                    /\ \A j \in open : k <= j
                    /\ right_hand_solver.current_pos
                         = C24_Target(b.current_pos, cand[k])
                    /\ right_hand_solver.current_direction = cand[k]
                    /\ observed.ret = TRUE

\* The right turn is closed and both straight and back are open.
C24_Witness ==
    /\ pc = "returned"
    /\ ~Adjacent(observed.before.current_pos, maze_structure.end)
    /\ observed.before.current_pos # maze_structure.end
    /\ ~C24_Open(observed.before.current_pos,
                 (observed.before.current_direction + 1) % 4)
    /\ C24_Open(observed.before.current_pos, observed.before.current_direction)
    /\ C24_Open(observed.before.current_pos,
                (observed.before.current_direction + 2) % 4)
    /\ right_hand_solver.current_direction = observed.before.current_direction

\* C25: a step_solve call made one cell from end, end being Path, puts the
\* solver on end, appends end to path_taken, marks it complete and returns
\* False, whichever way it faces and whatever other move is open.
C25_ExitShortCircuit ==
    pc = "returned" =>
        LET b == observed.before
            end == maze_structure.end
        IN  (/\ Abs(b.current_pos[1] - end[1]) + Abs(b.current_pos[2] - end[2]) = 1
             /\ maze_structure.grid[end[1]][end[2]] = 1) =>
                /\ right_hand_solver.current_pos = end
                /\ right_hand_solver.path_taken = Append(b.path_taken, end)
                /\ right_hand_solver.solving_complete
                /\ observed.ret = FALSE

\* The right turn is open and leads away from end.
C25_Witness ==
    /\ pc = "returned"
    /\ right_hand_solver.current_pos = maze_structure.end
    /\ Adjacent(observed.before.current_pos, maze_structure.end)
    /\ C24_Open(observed.before.current_pos,
                (observed.before.current_direction + 1) % 4)
    /\ C24_Target(observed.before.current_pos,
                  (observed.before.current_direction + 1) % 4) # maze_structure.end

\* C26: a step_solve call made where no neighbour is an in-bounds Path cell
\* and end is not adjacent marks the solver complete and returns False;
\* position, facing, path_taken and visited_positions stay as they were, and
\* the loop on is_complete ends.
C26_DefensiveStop ==
    pc = "returned" =>
        LET b == observed.before
        IN  (/\ \A d \in 0 .. 3 : ~C24_Open(b.current_pos, d)
             /\ ~Adjacent(b.current_pos, maze_structure.end)) =>
                /\ right_hand_solver = [b EXCEPT !.solving_complete = TRUE]
                /\ observed.ret = FALSE
                /\ RightHandLoop(maze_structure, b, 1).returns

C26_Witness ==
    /\ pc = "returned"
    /\ maze_structure.rows = MaxGridRows /\ maze_structure.cols = MaxGridCols
    /\ \A d \in 0 .. 3 : ~C24_Open(observed.before.current_pos, d)
    /\ ~Adjacent(observed.before.current_pos, maze_structure.end)
    /\ observed.before.current_pos # maze_structure.end
    /\ right_hand_solver.solving_complete

\* (row, col) is a cell of the grid.
C27_InBounds(ms, row, col) == <<row, col>> \in Cells(ms.rows, ms.cols)

\* C27: outside the grid, negative indices included, is_wall is true and
\* is_path false, and carve_path leaves the grid as it was; inside, it makes
\* the cell Path and leaves every other cell and both markers as they were.
C27_OutOfBounds ==
    LET row == observed.row
        col == observed.col
    IN  /\ ~C27_InBounds(maze_structure, row, col) =>
              /\ is_wall(maze_structure, row, col) = TRUE
              /\ is_path(maze_structure, row, col) = FALSE
        /\ pc = "returned" =>
              IF C27_InBounds(maze_structure, row, col)
              THEN /\ is_path(maze_structure, row, col)
                   /\ \A c \in Cells(maze_structure.rows, maze_structure.cols) :
                         c # <<row, col>> =>
                            maze_structure.grid[c[1]][c[2]]
                              = observed.before.grid[c[1]][c[2]]
                   /\ maze_structure.start = observed.before.start
                   /\ maze_structure.end = observed.before.end
                   /\ maze_structure.rows = observed.before.rows
                   /\ maze_structure.cols = observed.before.cols
              ELSE maze_structure = observed.before

C27_Witness ==
    /\ pc = "returned"
    /\ observed.row = -1 /\ observed.col = -1
    /\ maze_structure.rows = MaxGridRows /\ maze_structure.cols = MaxGridCols
    /\ maze_structure.grid[MaxGridRows - 1][MaxGridCols - 1] = 0

\* C31: skip_current_phase returns in whatever phase and at whatever point
\* of the phase it is called, and in phase complete it changes nothing:
\* phase, robot position and direction, the solvers and the grid stay.
C31_SkipAlwaysSafe ==
    pc = "running" =>
      \A w \in skip_current_phase(World) :
        /\ w.pc = "running"
        /\ current_phase = "complete" => w = World

\* The unvisited lattice neighbours of the stack top: two cells away along
\* one axis and strictly inside the border.
C32_Neighbours(ms, g) ==
    LET top == g.stack[Len(g.stack)]
    IN  {t \in Cells(ms.rows, ms.cols) :
           /\ \/ t[1] = top[1] /\ Abs(t[2] - top[2]) = 2
              \/ t[2] = top[2] /\ Abs(t[1] - top[1]) = 2
           /\ 0 < t[1] /\ t[1] < ms.rows - 1
           /\ 0 < t[2] /\ t[2] < ms.cols - 1
           /\ ~g.visited[t[1]][t[2]]}

\* C32: when the stack top has an unvisited lattice neighbour, a
\* step_generation call picks one, carves the cell between and the target,
\* marks the target visited, pushes it, makes it current_pos and returns
\* True; and whatever a call pushes is such a neighbour, so never a border
\* cell and never a visited one.
C32_DfsAdvance ==
    (pc = "running" /\ current_phase = "generation"
       /\ maze_generator.stack # <<>>) =>
      LET ms == maze_structure
          g == maze_generator
          top == g.stack[Len(g.stack)]
      IN  \A r \in StepGenerationOutcomes(ms, g) :
            /\ C32_Neighbours(ms, g) # {} =>
                 \E t \in C32_Neighbours(ms, g) :
                   LET mid == <<(top[1] + t[1]) \div 2, (top[2] + t[2]) \div 2>>
                   IN  /\ r.ret = TRUE
                       /\ r.g.stack = Append(g.stack, t)
                       /\ r.g.current_pos = t
                       /\ r.g.visited = [g.visited EXCEPT ![t[1]][t[2]] = TRUE]
                       /\ \A c \in Cells(ms.rows, ms.cols) :
                            r.ms.grid[c[1]][c[2]] =
                              IF c \in {mid, t} THEN 1 ELSE ms.grid[c[1]][c[2]]
            /\ Len(r.g.stack) > Len(g.stack) =>
                 /\ Len(r.g.stack) = Len(g.stack) + 1
                 /\ r.g.stack[Len(r.g.stack)] \in C32_Neighbours(ms, g)

C32_Witness ==
    /\ pc = "running" /\ current_phase = "generation"
    /\ Len(maze_generator.stack) >= 3
    /\ maze_generator.current_pos = maze_generator.stack[Len(maze_generator.stack)]
    /\ Cardinality(C32_Neighbours(maze_structure, maze_generator)) >= 2

\* C33: when the stack top has no unvisited lattice neighbour, a
\* step_generation call pops one entry, makes the new top current_pos if
\* there is one, and returns True, also when the stack is then empty;
\* generation_complete is set only by a call that finds the stack empty, and
\* that call returns False and changes nothing else.
C33_BacktrackAndCompletion ==
    (pc = "running" /\ current_phase = "generation") =>
      LET ms == maze_structure
          g == maze_generator
          n == Len(g.stack)
      IN  /\ ~g.generation_complete
          /\ \A r \in StepGenerationOutcomes(ms, g) :
               /\ (n > 0 /\ C32_Neighbours(ms, g) = {}) =>
                     /\ r.ret = TRUE
                     /\ r.g.stack = SubSeq(g.stack, 1, n - 1)
                     /\ n > 1 => r.g.current_pos = g.stack[n - 1]
                     /\ ~r.g.generation_complete
               /\ r.g.generation_complete => n = 0
               /\ n = 0 =>
                     /\ r.ret = FALSE
                     /\ r.g = [g EXCEPT !.generation_complete = TRUE]
                     /\ r.ms = ms

C33_Witness ==
    /\ pc = "running" /\ current_phase = "generation"
    /\ maze_generator.stack = <<>>
    /\ ~maze_generator.generation_complete
    /\ generation_calls >= 7

\* path starts on seed and ends on the exit, holds no cell twice, moves one
\* cell at a time and lies on Path cells of ms.
C34_ValidPath(ms, path, seed) ==
    /\ path # <<>>
    /\ path[1] = seed
    /\ path[Len(path)] = ms.end
    /\ \A i, j \in 1 .. Len(path) : i # j => path[i] # path[j]
    /\ \A i \in 1 .. Len(path) - 1 :
          Abs(path[i][1] - path[i + 1][1]) + Abs(path[i][2] - path[i + 1][2]) = 1
    /\ \A i \in 1 .. Len(path) :
          /\ path[i] \in Cells(ms.rows, ms.cols)
          /\ ms.grid[path[i][1]][path[i][2]] = 1

\* C34: a captured path begins on the DFS seed (the cell right of start),
\* ends on end, holds no cell twice, has every two consecutive cells
\* 4-adjacent, and lies on Path cells of the grid as it is when the path is
\* captured and of every later grid.
C34_CapturedPathValid ==
    pc = "running" =>
      LET ms == maze_structure
          g == maze_generator
          seed == <<ms.start[1], ms.start[2] + 1>>
      IN  /\ g.found_exit_during_generation =>
                C34_ValidPath(ms, g.solution_path, seed)
          /\ current_phase = "generation" =>
                \A r \in StepGenerationOutcomes(ms, g) :
                  (~g.found_exit_during_generation
                     /\ r.g.found_exit_during_generation) =>
                        C34_ValidPath(ms, r.g.solution_path, seed)

C34_Witness ==
    /\ pc = "running"
    /\ maze_generator.found_exit_during_generation
    /\ maze_generator.generation_complete
    /\ Len(maze_generator.solution_path) >= 10

\* C35: on a grid with odd rows >= 3 and odd cols >= 3, when step_generation
\* has returned False a path has been captured: found_exit_during_generation
\* is true and the solution path is not empty.
C35_PathCapturedOnOddGrids ==
    (pc = "running" /\ maze_generator.generation_complete
       /\ maze_structure.rows % 2 = 1 /\ maze_structure.rows >= 3
       /\ maze_structure.cols % 2 = 1 /\ maze_structure.cols >= 3) =>
          /\ maze_generator.found_exit_during_generation
          /\ maze_generator.solution_path # <<>>
          /\ get_solution_path(maze_generator) # <<>>

C35_Witness ==
    /\ pc = "running" /\ maze_generator.generation_complete
    /\ maze_structure.rows = 5 /\ maze_structure.cols = 7
    /\ maze_structure.start[1] # maze_structure.end[1]
    /\ maze_generator.found_exit_during_generation

\* C36: after start_solving every cell of path_taken is an in-bounds Path
\* cell, consecutive cells are 4-adjacent, the last cell is current_pos, the
\* facing is one of 0..3, and a step_solve call leaves the entries path_taken
\* had and adds at most one.
C36_WallFollowerTrace ==
    pc = "running" =>
      LET ms == maze_structure
          p == right_hand_solver.path_taken
      IN  /\ p # <<>>
          /\ \A i \in 1 .. Len(p) :
                /\ p[i] \in Cells(ms.rows, ms.cols)
                /\ ms.grid[p[i][1]][p[i][2]] = 1
          /\ \A i \in 1 .. Len(p) - 1 :
                Abs(p[i][1] - p[i + 1][1]) + Abs(p[i][2] - p[i + 1][2]) = 1
          /\ p[Len(p)] = right_hand_solver.current_pos
          /\ right_hand_solver.current_direction \in 0 .. 3
          /\ observed # None =>
                LET q == observed.before.path_taken
                IN  /\ Len(q) <= Len(p) /\ Len(p) <= Len(q) + 1
                    /\ SubSeq(p, 1, Len(q)) = q

C36_Witness ==
    /\ pc = "running"
    /\ observed # None
    /\ Len(right_hand_solver.path_taken) >= 4
    /\ Len(observed.before.path_taken) = Len(right_hand_solver.path_taken) - 1
    /\ right_hand_solver.current_pos = maze_structure.end
    /\ right_hand_solver.current_direction # 1

\* C37: after start_solving, and also once the solver has completed,
\* visited_positions is the set of the cells that occur in path_taken.
C37_VisitedMatchesTrace ==
    pc = "running" =>
      right_hand_solver.visited_positions =
        {right_hand_solver.path_taken[i] :
           i \in 1 .. Len(right_hand_solver.path_taken)}

\* C38: an update_animation_step or skip_current_phase call that returns
\* with the coordinator in generation, path_solving or right_hand leaves
\* current_robot_pos on the current position of that phase's component.
C38_RobotTracksComponent ==
    pc = "running" =>
      \A w \in update_animation_step(World) \cup skip_current_phase(World) :
        w.pc = "running" =>
          /\ w.current_phase = "generation" =>
                w.current_robot_pos = w.maze_generator.current_pos
          /\ w.current_phase = "path_solving" =>
                w.current_robot_pos = w.path_solver.current_pos
          /\ w.current_phase = "right_hand" =>
                w.current_robot_pos = w.right_hand_solver.current_pos

C38_Witness ==
    /\ pc = "running" /\ current_phase = "path_solving"
    /\ path_solver.current_step >= 3
    /\ prev_pos # current_robot_pos
    /\ current_robot_pos = path_solver.current_pos
    /\ current_robot_pos # maze_generator.current_pos

\* C39: on a grid of at least 3 x 3, when step_generation has returned False
\* every interior cell on an odd row and an odd column is visited and Path,
\* current_pos is back on the DFS seed, and no cell was pushed twice. The
\* stack starts with one push and ends empty, so the calls up to the first
\* False are the other pushes, as many pops as pushes, and the last call:
\* twice the number of pushes. Every visited cell was pushed, so with no
\* cell pushed twice the calls are twice the number of visited cells.
C39_DfsExhaustive ==
    (pc = "running" /\ maze_generator.generation_complete
       /\ maze_structure.rows >= 3 /\ maze_structure.cols >= 3) =>
      LET ms == maze_structure
          g == maze_generator
      IN  /\ \A c \in Cells(ms.rows, ms.cols) :
                (/\ c[1] % 2 = 1 /\ c[2] % 2 = 1
                 /\ 0 < c[1] /\ c[1] < ms.rows - 1
                 /\ 0 < c[2] /\ c[2] < ms.cols - 1) =>
                    /\ g.visited[c[1]][c[2]]
                    /\ ms.grid[c[1]][c[2]] = 1
          /\ g.current_pos = <<ms.start[1], 1>>
          /\ generation_calls =
                2 * Cardinality({c \in Cells(ms.rows, ms.cols) :
                                    g.visited[c[1]][c[2]]})

C39_Witness ==
    /\ pc = "running" /\ maze_generator.generation_complete
    /\ maze_structure.rows = 5 /\ maze_structure.cols = 7
    /\ generation_calls = 12
    /\ maze_generator.current_pos = <<maze_structure.start[1], 1>>

\* C40: after start_generation every stack entry is an in-bounds cell that
\* is visited and Path, the stack holds no cell twice, consecutive entries
\* are two cells apart along one axis with the cell between them Path, and
\* a non-empty stack has current_pos as its top.
C40_StackInvariant ==
    pc = "running" =>
      LET ms == maze_structure
          g == maze_generator
          s == g.stack
      IN  /\ \A i \in 1 .. Len(s) :
                /\ s[i] \in Cells(ms.rows, ms.cols)
                /\ g.visited[s[i][1]][s[i][2]]
                /\ ms.grid[s[i][1]][s[i][2]] = 1
          /\ \A i, j \in 1 .. Len(s) : i # j => s[i] # s[j]
          /\ \A i \in 1 .. Len(s) - 1 :
                /\ \/ s[i][1] = s[i + 1][1] /\ Abs(s[i][2] - s[i + 1][2]) = 2
                   \/ s[i][2] = s[i + 1][2] /\ Abs(s[i][1] - s[i + 1][1]) = 2
                /\ ms.grid[(s[i][1] + s[i + 1][1]) \div 2]
                          [(s[i][2] + s[i + 1][2]) \div 2] = 1
          /\ s # <<>> => g.current_pos = s[Len(s)]

C40_Witness ==
    /\ pc = "running" /\ current_phase = "generation"
    /\ Len(maze_generator.stack) >= 5
    /\ maze_generator.stack[1][1] # maze_generator.stack[Len(maze_generator.stack)][1]
====
